---- MODULE Spec2Model ----
(***************************************************************************)
(* Model of the secure traffic management server                           *)
(* (src/nsp_traffic_management.py): SecurityManager.authenticate_client,   *)
(* the accept loop, the per-connection handler handle_client with its      *)
(* telemetry loop, process_traffic_data / generate_response, and the       *)
(* congestion scorer detect_vehicles.                                      *)
(*                                                                         *)
(* Strings are sequences of symbols (a whole identifier or password is one *)
(* symbol, ":" is the separator symbol), so that str.split(':') is         *)
(* computed rather than assumed.  Floating-point values (the congestion    *)
(* carried by telemetry, the scorer's quotient) are exact fractions        *)
(* [num, den] with den > 0.                                                *)
(***************************************************************************)
EXTENDS Integers, Sequences, FiniteSets, TLC

\* ---------------------------------------------------------------- bounds
MaxConns == 2       \* connections of a run, served concurrently
MaxTicks == 2       \* clock steps in a run
TickStep == 150     \* seconds per clock step
MaxCount == 4       \* cap on a failed-attempt counter
MaxSent == 2        \* sends recorded per connection (auth reply + responses)
MaxDetections == 2  \* boxes the detector returns for one frame
MaxDim == 2         \* frame height / width range 0..MaxDim
MaxRequests == 2    \* telemetry requests a client sends on its connection

\* ------------------------------------------------------ program constants
max_attempts == 3
block_duration == 300

SECURE_PASSWORD == <<"secure_password">>
AUTH_FAILED == [kind |-> "authfail"]
UNKNOWN == "UNKNOWN"
EmptyStr == << >>

\* a float, as an exact fraction
Frac(n, d) == [num |-> n, den |-> d]

\* ---------------------------------------------------------------- inputs
Conns == 1 .. MaxConns
IdSyms == {"s1", "s2"}
PwSyms == {"secure_password", "wrong"}
ClientIds == {<<i>> : i \in IdSyms}

\* What a peer may write as the first message of a connection.
AuthInputs ==
    {<<i, ":", p>> : i \in IdSyms, p \in PwSyms}
        \cup {<<i>> : i \in IdSyms}
        \cup {<<i, ":", p, ":", p>> : i \in {"s1"}, p \in {"secure_password"}}
        \cup {EmptyStr}

VARIABLES
    now,                \* time.time()
    running,            \* SecureTrafficSystem.running
    srv,                \* position of start_server
    authorized_clients, \* SecurityManager.authorized_clients
    session_tokens,     \* SecurityManager.session_tokens (dict)
    failed_attempts,    \* SecurityManager.failed_attempts (dict)
    signals,            \* SecureTrafficSystem.signals (dict)
    congestion_levels,  \* SecureTrafficSystem.congestion_levels (dict)
    pc,                 \* position of each handle_client thread
    client_id,          \* handle_client's local client_id
    password,           \* handle_client's local password
    auth_ok,            \* which return of authenticate_client the handler got
    sent,               \* payloads the handler passed to client_socket.send
    consec,             \* per id: trailing failed calls inside the record's window
    recv_data,          \* handle_client's local data (line 137)
    count_read,         \* line 55: the dict it subscripted and the count it loaded
    response,           \* generate_response's local response, as far as built
    record_obj,         \* per id: which call created the dict now in failed_attempts
    failures,           \* per id: failed verifications completed (line 57)
    updates,            \* per id: the traffic fields each received message carried
    auth_msg,           \* SecureTrafficClient.connect: auth_data sent, per connection
    stream,             \* bytes a client sent that the handler has not read
    requests,           \* send_traffic_data: requests sent, per connection
    processed,          \* process_traffic_data: messages it parsed (line 174)
    cl_pc,              \* position of each client
    cl_read,            \* how many of the handler's sends the client has read
    connected,          \* SecureTrafficClient.connected
    cl_token,           \* SecureTrafficClient.session_token
    connect_ret,        \* what SecureTrafficClient.connect returned
    frame,              \* detect_vehicles: frame.shape[0], frame.shape[1]
    results,            \* detect_vehicles: the boxes self.model(frame) returned
    ret                 \* detect_vehicles: what the call returned

secVars == <<authorized_clients, session_tokens, failed_attempts>>
trafficVars == <<signals, congestion_levels>>
connVars == <<pc, client_id, password, auth_ok, sent>>
auditVars == <<consec>>
detVars == <<frame, results, ret>>
stepVars == <<recv_data, count_read, response, record_obj, failures, updates>>
clientVars == <<auth_msg, stream, requests, processed, cl_pc, cl_read,
                connected, cl_token, connect_ret>>
serverVars == <<now, running, srv, secVars, trafficVars, connVars, auditVars,
                stepVars, clientVars>>
vars == <<serverVars, detVars>>

\* --------------------------------------------------------------- helpers
\* dict.get(key, default)
Get(d, k, default) == IF k \in DOMAIN d THEN d[k] ELSE default

\* d[k] = v on a dict
Put(d, k, v) == [x \in DOMAIN d \cup {k} |-> IF x = k THEN v ELSE d[x]]

\* str.split(sep): the fields between the separators, at least one field.
RECURSIVE Split(_, _)
Split(s, sep) ==
    IF s = << >> THEN << << >> >>
    ELSE LET rest == Split(Tail(s), sep)
         IN  IF Head(s) = sep
             THEN << << >> >> \o rest
             ELSE << <<Head(s)>> \o Head(rest) >> \o Tail(rest)

\* SecurityManager.generate_token: sha256 of "client_id:timestamp", a
\* function of exactly these two inputs.
generate_token(cid, t) == <<"sha256", cid, t>>

\* ------------------------------------------------ SecurityManager (l.36-57)
\* Blocked with the comparison of line 40 off by one (count > max_attempts)
BlockedOffByOne(fa, cid, t) ==
    /\ cid \in DOMAIN fa
    /\ t - fa[cid].timestamp < block_duration
    /\ fa[cid].count > max_attempts

\* lines 38-42: the early return of a blocked client
Blocked(fa, cid, t) ==
    /\ cid \in DOMAIN fa
    /\ t - fa[cid].timestamp < block_duration
    /\ fa[cid].count >= max_attempts

\* line 45
PasswordOk(pw) == pw = SECURE_PASSWORD

\* return value of authenticate_client
AuthReturns(fa, cid, pw, t) ==
    ~Blocked(fa, cid, t) /\ PasswordOk(pw)

\* lines 52-55: the failure branch
RecordFailure(fa, cid, t) ==
    IF cid \notin DOMAIN fa
    THEN Put(fa, cid, [count |-> 1, timestamp |-> t])
    ELSE [fa EXCEPT ![cid].count = @ + 1]

\* AuthFailedAttempts with the early return of line 42 placed after the
\* failure branch: a blocked call is counted like a wrong password
AuthFailedAttemptsCountsBlocked(fa, cid, pw, t) ==
    IF ~Blocked(fa, cid, t) /\ PasswordOk(pw)
    THEN fa
    ELSE RecordFailure(fa, cid, t)

\* failed_attempts after the call
AuthFailedAttempts(fa, cid, pw, t) ==
    IF Blocked(fa, cid, t) \/ PasswordOk(pw)
    THEN fa
    ELSE RecordFailure(fa, cid, t)

\* session_tokens after the call (lines 47-48)
AuthSessionTokens(st, fa, cid, pw, t) ==
    IF AuthReturns(fa, cid, pw, t)
    THEN Put(st, cid, generate_token(cid, t))
    ELSE st

\* authorized_clients after the call (line 46)
AuthAuthorized(ac, fa, cid, pw, t) ==
    IF AuthReturns(fa, cid, pw, t) THEN ac \cup {cid} ELSE ac

\* the return statement the call leaves by (lines 42, 50, 57)
AuthPath(fa, cid, pw, t) ==
    IF Blocked(fa, cid, t) THEN "blocked"
    ELSE IF PasswordOk(pw) THEN "ok"
    ELSE "failed"

\* History of the calls: how many of the most recent authenticate_client
\* calls for cid failed while the clock was inside the window of the record
\* that exists after the call (capped at max_attempts).
ConsecAfter(n, fa2, cid, ok, t) ==
    IF ok THEN 0
    ELSE IF cid \in DOMAIN fa2 /\ t - fa2[cid].timestamp < block_duration
         THEN (IF n < max_attempts THEN n + 1 ELSE max_attempts)
         ELSE 0

\* The counter is capped: a call that would push it past MaxCount is not
\* explored.
WithinCap(fa, cid, pw, t) ==
    IF Blocked(fa, cid, t) \/ PasswordOk(pw) \/ cid \notin DOMAIN fa
    THEN TRUE
    ELSE fa[cid].count < MaxCount

\* ------------------------------------------------------------------ Init
NoRet == [done |-> FALSE]

\* nothing received yet
NoData == [kind |-> "none"]

\* Python's None, as a value that can be compared with the strings
None == <<"None">>

\* The server as constructed (lines 23-28, 60-88)
InitServer ==
    /\ now = 0
    /\ running = FALSE
    /\ srv = "new"
    /\ authorized_clients = {}
    /\ session_tokens = << >>
    /\ failed_attempts = << >>
    /\ signals = << >>
    /\ congestion_levels = << >>
    /\ pc = [c \in Conns |-> "idle"]
    /\ client_id = [c \in Conns |-> EmptyStr]
    /\ password = [c \in Conns |-> EmptyStr]
    /\ auth_ok = [c \in Conns |-> "none"]
    /\ sent = [c \in Conns |-> << >>]
    /\ consec = [i \in ClientIds |-> 0]
    /\ recv_data = [c \in Conns |-> NoData]
    /\ count_read = [c \in Conns |-> [obj |-> 0, count |-> 0]]
    /\ response = [c \in Conns |-> << >>]
    /\ record_obj = [i \in ClientIds |-> 0]
    /\ failures = [i \in ClientIds |-> 0]
    /\ updates = [i \in ClientIds |-> {}]
    /\ auth_msg = [c \in Conns |-> EmptyStr]
    /\ stream = [c \in Conns |-> << >>]
    /\ requests = [c \in Conns |-> 0]
    /\ processed = [c \in Conns |-> 0]
    /\ cl_pc = [c \in Conns |-> "new"]
    /\ cl_read = [c \in Conns |-> 0]
    /\ connected = [c \in Conns |-> FALSE]
    /\ cl_token = [c \in Conns |-> None]
    /\ connect_ret = [c \in Conns |-> "pending"]

Init ==
    /\ InitServer
    /\ frame = <<0, 0>>
    /\ results = << >>
    /\ ret = NoRet

\* ------------------------------------------------------------ the clock
Tick(limit) ==
    /\ now + TickStep <= limit * TickStep
    /\ now' = now + TickStep
    /\ UNCHANGED <<detVars, stepVars, clientVars, running, srv, secVars, trafficVars, connVars, auditVars>>

\* -------------------------------------------------- start_server (l.90-121)
\* lines 92-106: sockets and certificate set up, running = True
StartServer ==
    /\ srv = "new"
    /\ running' = TRUE
    /\ srv' = "check"
    /\ UNCHANGED <<detVars, stepVars, clientVars, now, secVars, trafficVars, connVars, auditVars>>

\* lines 119-121: set-up raised (certificate, bind)
StartServerFails ==
    /\ srv = "new"
    /\ running' = FALSE
    /\ srv' = "exited"
    /\ UNCHANGED <<detVars, stepVars, clientVars, now, secVars, trafficVars, connVars, auditVars>>

\* line 108: while self.running
ServerLoopCheck ==
    /\ srv = "check"
    /\ srv' = IF running THEN "accept" ELSE "exited"
    /\ UNCHANGED <<detVars, stepVars, clientVars, now, running, secVars, trafficVars, connVars, auditVars>>

\* lines 110-115: accept() returns and a handler thread starts
Accept(c) ==
    /\ srv = "accept"
    /\ pc[c] = "idle"
    /\ pc' = [pc EXCEPT ![c] = "connected"]
    /\ srv' = "check"
    /\ UNCHANGED <<detVars, stepVars, clientVars, now, running, secVars, trafficVars,
                   client_id, password, auth_ok, sent, auditVars>>

\* The same, for a later connection served on the slot of a finished one:
\* a new thread with fresh locals and a new socket.
AcceptNext(c) ==
    /\ srv = "accept"
    /\ pc[c] = "closed"
    /\ pc' = [pc EXCEPT ![c] = "connected"]
    /\ client_id' = [client_id EXCEPT ![c] = EmptyStr]
    /\ password' = [password EXCEPT ![c] = EmptyStr]
    /\ auth_ok' = [auth_ok EXCEPT ![c] = "none"]
    /\ sent' = [sent EXCEPT ![c] = << >>]
    /\ srv' = "check"
    /\ UNCHANGED <<detVars, stepVars, clientVars, now, running, secVars, trafficVars, auditVars>>

\* lines 116-117: accept() raised; logged, back to the loop test
AcceptFails ==
    /\ srv = "accept"
    /\ srv' = "check"
    /\ UNCHANGED <<detVars, stepVars, clientVars, now, running, secVars, trafficVars, connVars, auditVars>>

\* lines 228-231
StopServer ==
    /\ running
    /\ running' = FALSE
    /\ UNCHANGED <<detVars, stepVars, clientVars, now, srv, secVars, trafficVars, connVars, auditVars>>

\* ------------------------------------------------ handle_client (l.123-158)
IoOutcomes == {"ok", "recv_error", "send_error"}

\* The handler's local state after the connection is torn down (line 158).
Close(c) == pc' = [pc EXCEPT ![c] = "closed"]

\* AuthReply with the send of line 132 moved out of the if: the stored
\* token of the identity goes out whatever authenticate_client returned
AuthReplyAlwaysToken(ok, st, cid) ==
    [kind |-> "token", token |-> Get(st, cid, EmptyStr)]

\* lines 131-132 / 153: what the handler sends after authenticate_client
AuthReply(ok, st, cid) ==
    IF ok THEN [kind |-> "token", token |-> st[cid]] ELSE AUTH_FAILED

\* AfterAuth with the telemetry loop outside the if of line 130
AfterAuthFallsThrough(ok, io) ==
    IF io # "send_error" THEN "loop" ELSE "closed"

\* lines 130-134 / 152-158: where the handler goes after its reply
AfterAuth(ok, io) ==
    IF ok /\ io # "send_error" THEN "loop" ELSE "closed"

\* lines 127-132 and 152-158: read the auth message, authenticate, reply.
HandleAuth(c, auth_data, io) ==
    /\ pc[c] = "connected"
    /\ LET fields == Split(auth_data, ":")
       IN  IF io = "recv_error" \/ Len(fields) # 2
           THEN \* recv raised, or the unpacking of split(':') raised
                /\ Close(c)
                /\ UNCHANGED <<client_id, password, auth_ok, sent, secVars,
                               auditVars>>
           ELSE LET cid == fields[1]
                    pw == fields[2]
                    ok == AuthReturns(failed_attempts, cid, pw, now)
                    fa2 == AuthFailedAttempts(failed_attempts, cid, pw, now)
                    st2 == AuthSessionTokens(session_tokens, failed_attempts,
                                             cid, pw, now)
                IN  /\ WithinCap(failed_attempts, cid, pw, now)
                    /\ client_id' = [client_id EXCEPT ![c] = cid]
                    /\ password' = [password EXCEPT ![c] = pw]
                    /\ failed_attempts' = fa2
                    /\ session_tokens' = st2
                    /\ authorized_clients' =
                           AuthAuthorized(authorized_clients, failed_attempts,
                                          cid, pw, now)
                    /\ consec' = [consec EXCEPT ![cid] =
                                     ConsecAfter(@, fa2, cid, ok, now)]
                    /\ auth_ok' = [auth_ok EXCEPT ![c] =
                           AuthPath(failed_attempts, cid, pw, now)]
                    /\ sent' = [sent EXCEPT ![c] = <<AuthReply(ok, st2, cid)>>]
                    /\ pc' = [pc EXCEPT ![c] = AfterAuth(ok, io)]
    /\ UNCHANGED <<detVars, stepVars, clientVars, now, running, srv, trafficVars>>

\* line 134: while self.running
LoopCheck(c) ==
    /\ pc[c] = "loop"
    /\ pc' = [pc EXCEPT ![c] = IF running THEN "recv" ELSE "closed"]
    /\ UNCHANGED <<detVars, stepVars, clientVars, now, running, srv, secVars, trafficVars,
                   client_id, password, auth_ok, sent, auditVars>>

\* ------------------------------------------------------- telemetry payloads
BogusToken == <<"bogus">>
SignalInputs == {"RED", "GREEN"}
\* 0.4 and 2.5
CongestionInputs == {Frac(2, 5), Frac(5, 2)}
KeySets ==
    { {"signal_state", "congestion", "token", "client_id"},
      {"signal_state", "token", "client_id"},
      {"congestion", "token", "client_id"},
      {"token", "client_id"} }

JsonObject(s, g, t, i, K) ==
    [k \in K |-> CASE k = "signal_state" -> s
                   [] k = "congestion" -> g
                   [] k = "token" -> t
                   [] OTHER -> i]

\* The token a client holds is the one the handler sent it (client line 46).
HeldToken(c) == IF sent[c] # << >> /\ sent[c][1].kind = "token"
                THEN sent[c][1].token ELSE BogusToken

\* What a peer may write in the telemetry loop of connection c.
TelemetryInputs(c) ==
    {[kind |-> "empty"], [kind |-> "garbage"]}
        \cup {[kind |-> "json", obj |-> JsonObject(s, g, t, i, K)] :
                 s \in SignalInputs, g \in CongestionInputs,
                 t \in {HeldToken(c), BogusToken}, i \in ClientIds, K \in KeySets}

\* json.loads(data.decode()): raises on anything but JSON text
JsonLoads(data) ==
    IF data.kind = "json" THEN [ok |-> TRUE, value |-> data.obj]
    ELSE [ok |-> FALSE, value |-> << >>]

\* ----------------------------------------- process_traffic_data (l.160-177)
\* ProcessSignals keyed by the client_id field of the payload instead of
\* the handler's client_id
ProcessSignalsTrustsPayload(sig, data, cid) ==
    LET parsed == JsonLoads(data)
    IN  IF parsed.ok /\ "signal_state" \in DOMAIN parsed.value
        THEN Put(sig, parsed.value["client_id"], parsed.value["signal_state"])
        ELSE sig

ProcessSignals(sig, data, cid) ==
    LET parsed == JsonLoads(data)
    IN  IF parsed.ok /\ "signal_state" \in DOMAIN parsed.value
        THEN Put(sig, cid, parsed.value["signal_state"])
        ELSE sig

\* ProcessCongestion looking for the field under the name the response
\* uses for it, congestion_level
ProcessCongestionWrongKey(cl, data, cid) ==
    LET parsed == JsonLoads(data)
    IN  IF parsed.ok /\ "congestion_level" \in DOMAIN parsed.value
        THEN Put(cl, cid, parsed.value["congestion_level"])
        ELSE cl

ProcessCongestion(cl, data, cid) ==
    LET parsed == JsonLoads(data)
    IN  IF parsed.ok /\ "congestion" \in DOMAIN parsed.value
        THEN Put(cl, cid, parsed.value["congestion"])
        ELSE cl

\* -------------------------------------------- generate_response (l.179-187)
\* (the timestamp field, datetime.now(), is left out: nothing reads it)
generate_response(sig, cl, st, cid) ==
    [kind |-> "response",
     signal_state |-> Get(sig, cid, UNKNOWN),
     congestion_level |-> Get(cl, cid, Frac(0, 1)),
     token |-> Get(st, cid, EmptyStr)]

\* lines 135-150: one pass of the telemetry loop on what recv returned
TelemetryPass(c, data, io) ==
    /\ pc[c] = "recv"
    /\ IF io = "recv_error" \/ data.kind = "empty"
       THEN \* recv raised (line 148), or the peer closed (line 138)
            /\ Close(c)
            /\ UNCHANGED <<sent, trafficVars>>
       ELSE LET sig2 == ProcessSignals(signals, data, client_id[c])
                cl2 == ProcessCongestion(congestion_levels, data, client_id[c])
            IN  /\ signals' = sig2
                /\ congestion_levels' = cl2
                /\ sent' = [sent EXCEPT ![c] = Append(@,
                       generate_response(sig2, cl2, session_tokens, client_id[c]))]
                /\ pc' = [pc EXCEPT ![c] =
                       IF io = "send_error" THEN "closed" ELSE "loop"]
    /\ UNCHANGED <<detVars, stepVars, now, running, srv, secVars, client_id,
                   password, auth_ok, auditVars>>

\* One pass of the loop when recv returns one whole message (or nothing)
RecvTelemetry(c, data, io) ==
    /\ IF io = "recv_error" \/ data.kind = "empty" THEN TRUE
       ELSE Len(sent[c]) < MaxSent
    /\ TelemetryPass(c, data, io)
    /\ UNCHANGED clientVars

\* --------------------------------------------- detect_vehicles (l.189-226)
\* lines 71-77
vehicle_classes ==
    (2 :> "car" @@ 3 :> "motorcycle" @@ 5 :> "bus" @@ 7 :> "truck"
       @@ 1 :> "bicycle")

\* lines 80-84
emergency_classes == [ambulance |-> 2, fire_truck |-> 7, police_car |-> 2]

EmergencyClassIds == {emergency_classes[k] : k \in DOMAIN emergency_classes}

\* What self.model(frame) may return: class ids (0 is not a vehicle) with
\* boxes x1 < x2, y1 < y2.
BoxInputs ==
    {[cls |-> k, conf |-> 90, xyxy |-> b] :
        k \in {0, 2, 5}, b \in {<<0, 0, 1, 1>>, <<0, 0, 2, 2>>}}

RECURSIVE SeqsUpTo(_, _)
SeqsUpTo(S, n) ==
    IF n = 0 THEN {<< >>}
    ELSE LET shorter == SeqsUpTo(S, n - 1)
         IN  shorter \cup {Append(q, x) : q \in shorter, x \in S}

\* lines 206-210: the dict built for a box
Detection(box) ==
    [class |-> vehicle_classes[box.cls], confidence |-> box.conf,
     box |-> box.xyxy]

\* lines 197-215: the boxes of vehicle classes, split by line 212
RECURSIVE Partition(_, _)
Partition(boxes, emergency) ==
    IF boxes = << >> THEN << >>
    ELSE LET b == Head(boxes)
             rest == Partition(Tail(boxes), emergency)
         IN  IF b.cls \in DOMAIN vehicle_classes
                /\ ((b.cls \in EmergencyClassIds) = emergency)
             THEN <<Detection(b)>> \o rest
             ELSE rest

\* Iterating a dict yields its keys, in insertion order (lines 206-210).
DictKeys == <<"class", "confidence", "box">>

\* Iterating a str yields its characters.
Chars(key) ==
    CASE key = "class" -> <<"c", "l", "a", "s", "s">>
      [] key = "confidence" -> <<"c", "o", "n", "f", "i", "d", "e", "n", "c", "e">>
      [] key = "box" -> <<"b", "o", "x">>

\* line 219, the target list `_, _, (x1, y1, x2, y2)` applied to one element
\* of regular_vehicles: the element is a dict, so the three targets receive
\* its three keys and the nested target unpacks the characters of the third
\* key. Four characters are needed; otherwise ValueError.
UnpackRaises(detection) ==
    \/ Len(DictKeys) # 3
    \/ Len(Chars(DictKeys[3])) # 4

\* line 219: sum(...) over regular_vehicles. With four one-character
\* strings bound, (x2-x1) would raise TypeError, so an element never
\* contributes a number: the sum is 0 for an empty list and raises otherwise.
VehicleArea(regular) ==
    IF regular = << >> THEN [raised |-> FALSE, value |-> 0]
    ELSE [raised |-> TRUE, value |-> 0]

\* line 220: min(1.0, vehicle_area / frame_area) as an exact fraction
Congestion(vehicle_area, frame_area) ==
    IF frame_area = 0 THEN [raised |-> TRUE, num |-> 0, den |-> 1]
    ELSE IF vehicle_area > frame_area THEN [raised |-> FALSE, num |-> 1, den |-> 1]
    ELSE [raised |-> FALSE, num |-> vehicle_area, den |-> frame_area]

\* lines 191-226: the whole call; any exception ends in line 226
detect_vehicles(boxes, shape) ==
    LET regular_vehicles == Partition(boxes, FALSE)
        emergency_vehicles == Partition(boxes, TRUE)
        frame_area == shape[1] * shape[2]
        vehicle_area == VehicleArea(regular_vehicles)
        congestion == Congestion(vehicle_area.value, frame_area)
    IN  IF (\E i \in 1 .. Len(regular_vehicles) :
                UnpackRaises(regular_vehicles[i]))
           \/ vehicle_area.raised \/ congestion.raised
        THEN [done |-> TRUE, escaped |-> FALSE, regular |-> << >>,
              emergency |-> << >>, num |-> 0, den |-> 1]
        ELSE [done |-> TRUE, escaped |-> FALSE, regular |-> regular_vehicles,
              emergency |-> emergency_vehicles,
              num |-> congestion.num, den |-> congestion.den]

FrameInputs == (0 .. MaxDim) \X (0 .. MaxDim)
ResultInputs == SeqsUpTo(BoxInputs, MaxDetections)

\* A frame arrives together with what the detector finds in it.
NewFrame ==
    /\ ret # NoRet
    /\ frame' \in FrameInputs
    /\ results' \in ResultInputs
    /\ ret' = NoRet
    /\ UNCHANGED serverVars

DetectVehicles ==
    /\ ret = NoRet
    /\ ret' = detect_vehicles(results, frame)
    /\ UNCHANGED <<frame, results, serverVars>>

InitDetect ==
    /\ InitServer
    /\ frame \in FrameInputs
    /\ results \in ResultInputs
    /\ ret = NoRet

NextDetect == NewFrame \/ DetectVehicles

SpecDetect == InitDetect /\ [][NextDetect]_vars

\* One pass of the telemetry loop of connection c on any payload the peer
\* holding that connection's token may write.
TelemetryStep(c) ==
    \E io \in IoOutcomes, d \in TelemetryInputs(c) : RecvTelemetry(c, d, io)

\* ------------------------------------------------------------------ Next
\* start_server, stop_server and the clock up to `limit`
ServerStep(limit) ==
    \/ Tick(limit)
    \/ StartServer
    \/ StartServerFails
    \/ ServerLoopCheck
    \/ AcceptFails
    \/ StopServer

\* Environment of the protocol specification: MaxConns connections in a run,
\* served concurrently, every telemetry payload, one clock step; the wrong
\* password is offered for one identity only.
ProtoAuthInputs ==
    {<<"s1", ":", "secure_password">>, <<"s2", ":", "secure_password">>,
     <<"s1", ":", "wrong">>, <<"s1">>}

Next ==
    \/ ServerStep(1)
    \/ \E c \in Conns : Accept(c)
    \/ \E c \in Conns, a \in ProtoAuthInputs, io \in IoOutcomes :
          HandleAuth(c, a, io)
    \/ \E c \in Conns : LoopCheck(c)
    \/ \E c \in Conns : TelemetryStep(c)

Spec == Init /\ [][Next]_vars

\* Environment of the authentication specification: peers connect one at a
\* time, offer every auth message, and the clock runs past the lockout
\* window; telemetry carries no traffic state.
AuthConns == {1}
AuthTelemetryInputs == {[kind |-> "empty"], [kind |-> "garbage"]}

NextAuth ==
    \/ ServerStep(MaxTicks)
    \/ \E c \in AuthConns : Accept(c)
    \/ \E c \in AuthConns : AcceptNext(c)
    \/ \E c \in AuthConns, a \in AuthInputs, io \in IoOutcomes :
          HandleAuth(c, a, io)
    \/ \E c \in AuthConns : LoopCheck(c)
    \/ \E c \in AuthConns, d \in AuthTelemetryInputs, io \in IoOutcomes :
          RecvTelemetry(c, d, io)

SpecAuth == Init /\ [][NextAuth]_vars

\* ------------------------------------------------------------------------
\* handle_client thread by thread: the handlers run as threads over the
\* same SecurityManager and the same dicts with no lock, so a thread may be
\* preempted between any two accesses of shared state.  Below, the handler
\* of lines 123-158 is cut at those accesses: one action per read or write
\* of failed_attempts, session_tokens, signals and congestion_levels.

\* lines 127-128: recv, decode, split into client_id and password
RecvAuth(c, auth_data, io) ==
    /\ pc[c] = "connected"
    /\ LET fields == Split(auth_data, ":")
       IN  IF io = "recv_error" \/ Len(fields) # 2
           THEN /\ Close(c)
                /\ UNCHANGED <<client_id, password>>
           ELSE /\ client_id' = [client_id EXCEPT ![c] = fields[1]]
                /\ password' = [password EXCEPT ![c] = fields[2]]
                /\ pc' = [pc EXCEPT ![c] = "auth_check"]
    /\ UNCHANGED <<detVars, stepVars, clientVars, now, running, srv, secVars,
                   trafficVars, auth_ok, sent, auditVars>>

\* lines 38-42: the lockout test
AuthCheckBlocked(c) ==
    /\ pc[c] = "auth_check"
    /\ IF Blocked(failed_attempts, client_id[c], now)
       THEN /\ auth_ok' = [auth_ok EXCEPT ![c] = "blocked"]
            /\ consec' = [consec EXCEPT ![client_id[c]] =
                   ConsecAfter(@, failed_attempts, client_id[c], FALSE, now)]
            /\ pc' = [pc EXCEPT ![c] = "reply"]
       ELSE /\ pc' = [pc EXCEPT ![c] = "auth_verify"]
            /\ UNCHANGED <<auth_ok, consec>>
    /\ UNCHANGED <<detVars, stepVars, clientVars, now, running, srv, secVars,
                   trafficVars, client_id, password, sent>>

\* lines 45-50: the password test and the success branch
AuthVerify(c) ==
    /\ pc[c] = "auth_verify"
    /\ IF PasswordOk(password[c])
       THEN /\ authorized_clients' = authorized_clients \cup {client_id[c]}
            /\ session_tokens' = Put(session_tokens, client_id[c],
                                     generate_token(client_id[c], now))
            /\ auth_ok' = [auth_ok EXCEPT ![c] = "ok"]
            /\ consec' = [consec EXCEPT ![client_id[c]] = 0]
            /\ pc' = [pc EXCEPT ![c] = "reply"]
       ELSE /\ pc' = [pc EXCEPT ![c] = "auth_test"]
            /\ UNCHANGED <<authorized_clients, session_tokens, auth_ok, consec>>
    /\ UNCHANGED <<detVars, stepVars, clientVars, now, running, srv,
                   failed_attempts, trafficVars, client_id, password, sent>>

\* line 52: if client_id not in self.failed_attempts
AuthTestRecord(c) ==
    /\ pc[c] = "auth_test"
    /\ pc' = [pc EXCEPT ![c] =
           IF client_id[c] \notin DOMAIN failed_attempts
           THEN "auth_create" ELSE "auth_load"]
    /\ UNCHANGED <<detVars, stepVars, clientVars, now, running, srv, secVars,
                   trafficVars, client_id, password, auth_ok, sent, auditVars>>

\* the return False of line 57, after the record was written
AuthFailed(c, fa2) ==
    /\ failed_attempts' = fa2
    /\ failures' = [failures EXCEPT ![client_id[c]] = @ + 1]
    /\ consec' = [consec EXCEPT ![client_id[c]] =
           ConsecAfter(@, fa2, client_id[c], FALSE, now)]
    /\ auth_ok' = [auth_ok EXCEPT ![c] = "failed"]
    /\ pc' = [pc EXCEPT ![c] = "reply"]

\* line 53: a new dict is stored under the key
AuthCreateRecord(c) ==
    /\ pc[c] = "auth_create"
    /\ AuthFailed(c, Put(failed_attempts, client_id[c],
                         [count |-> 1, timestamp |-> now]))
    /\ record_obj' = [record_obj EXCEPT ![client_id[c]] = c]
    /\ UNCHANGED <<detVars, clientVars, now, running, srv, authorized_clients,
                   session_tokens, trafficVars, client_id, password, sent,
                   recv_data, count_read, response, updates>>

\* line 55, first half of `+= 1`: subscript the dict and load its count
AuthLoadCount(c) ==
    /\ pc[c] = "auth_load"
    /\ count_read' = [count_read EXCEPT ![c] =
           [obj |-> record_obj[client_id[c]],
            count |-> failed_attempts[client_id[c]].count]]
    /\ pc' = [pc EXCEPT ![c] = "auth_store"]
    /\ UNCHANGED <<detVars, clientVars, now, running, srv, secVars, trafficVars,
                   client_id, password, auth_ok, sent, auditVars,
                   recv_data, response, record_obj, failures, updates>>

\* line 55, second half: store count + 1 into the dict that was subscripted
\* (a dict another thread has replaced in the meantime is no longer in
\* failed_attempts, and the store is not seen)
AuthStoreCount(c) ==
    /\ pc[c] = "auth_store"
    /\ count_read[c].count < MaxCount
    /\ AuthFailed(c,
          IF record_obj[client_id[c]] = count_read[c].obj
          THEN [failed_attempts EXCEPT
                   ![client_id[c]].count = count_read[c].count + 1]
          ELSE failed_attempts)
    /\ UNCHANGED <<detVars, clientVars, now, running, srv, authorized_clients,
                   session_tokens, trafficVars, client_id, password, sent,
                   recv_data, count_read, response, record_obj, updates>>

\* lines 130-132 / 152-158: the reply after authenticate_client returned;
\* line 131 reads session_tokens[client_id] again
SendAuthReply(c, io) ==
    /\ pc[c] = "reply"
    /\ sent' = [sent EXCEPT ![c] =
           <<AuthReply(auth_ok[c] = "ok", session_tokens, client_id[c])>>]
    /\ pc' = [pc EXCEPT ![c] = AfterAuth(auth_ok[c] = "ok", io)]
    /\ UNCHANGED <<detVars, stepVars, clientVars, now, running, srv, secVars,
                   trafficVars, client_id, password, auth_ok, auditVars>>

\* the signal_state / congestion fields of a received payload
TrafficFields(data) ==
    LET parsed == JsonLoads(data)
    IN  IF parsed.ok
        THEN [k \in DOMAIN parsed.value \cap {"signal_state", "congestion"}
                 |-> parsed.value[k]]
        ELSE << >>

\* line 137-139: recv in the telemetry loop
RecvData(c, data, io) ==
    /\ pc[c] = "recv"
    /\ IF io = "recv_error" \/ data.kind = "empty"
       THEN /\ Close(c)
            /\ UNCHANGED <<recv_data, updates>>
       ELSE /\ Len(sent[c]) < MaxSent
            /\ recv_data' = [recv_data EXCEPT ![c] = data]
            /\ updates' = [updates EXCEPT ![client_id[c]] =
                              @ \cup {TrafficFields(data)}]
            /\ pc' = [pc EXCEPT ![c] = "store_signal"]
    /\ UNCHANGED <<detVars, clientVars, now, running, srv, secVars, trafficVars,
                   client_id, password, auth_ok, sent, auditVars,
                   count_read, response, record_obj, failures>>

\* lines 164-168: json.loads and the write of self.signals
StoreSignal(c) ==
    /\ pc[c] = "store_signal"
    /\ signals' = ProcessSignals(signals, recv_data[c], client_id[c])
    /\ pc' = [pc EXCEPT ![c] = "store_congestion"]
    /\ UNCHANGED <<detVars, stepVars, clientVars, now, running, srv, secVars,
                   congestion_levels, client_id, password, auth_ok, sent,
                   auditVars>>

\* lines 171-172: the write of self.congestion_levels
StoreCongestion(c) ==
    /\ pc[c] = "store_congestion"
    /\ congestion_levels' =
           ProcessCongestion(congestion_levels, recv_data[c], client_id[c])
    /\ pc' = [pc EXCEPT ![c] = "read_signal"]
    /\ UNCHANGED <<detVars, stepVars, clientVars, now, running, srv, secVars,
                   signals, client_id, password, auth_ok, sent, auditVars>>

\* line 183: self.signals.get
ReadSignal(c) ==
    /\ pc[c] = "read_signal"
    /\ response' = [response EXCEPT ![c] =
           [generate_response(signals, congestion_levels, session_tokens,
                              client_id[c])
              EXCEPT !.congestion_level = Frac(0, 1), !.token = EmptyStr]]
    /\ pc' = [pc EXCEPT ![c] = "read_congestion"]
    /\ UNCHANGED <<detVars, clientVars, now, running, srv, secVars, trafficVars,
                   client_id, password, auth_ok, sent, auditVars,
                   recv_data, count_read, record_obj, failures, updates>>

\* line 184: self.congestion_levels.get
ReadCongestion(c) ==
    /\ pc[c] = "read_congestion"
    /\ response' = [response EXCEPT ![c].congestion_level =
           generate_response(signals, congestion_levels, session_tokens,
                             client_id[c]).congestion_level]
    /\ pc' = [pc EXCEPT ![c] = "read_token"]
    /\ UNCHANGED <<detVars, clientVars, now, running, srv, secVars, trafficVars,
                   client_id, password, auth_ok, sent, auditVars,
                   recv_data, count_read, record_obj, failures, updates>>

\* line 185: self.security_manager.session_tokens.get
ReadToken(c) ==
    /\ pc[c] = "read_token"
    /\ response' = [response EXCEPT ![c].token =
           generate_response(signals, congestion_levels, session_tokens,
                             client_id[c]).token]
    /\ pc' = [pc EXCEPT ![c] = "send"]
    /\ UNCHANGED <<detVars, clientVars, now, running, srv, secVars, trafficVars,
                   client_id, password, auth_ok, sent, auditVars,
                   recv_data, count_read, record_obj, failures, updates>>

\* lines 146-150: send the response; back to the loop test
SendResponse(c, io) ==
    /\ pc[c] = "send"
    /\ sent' = [sent EXCEPT ![c] = Append(@, response[c])]
    /\ pc' = [pc EXCEPT ![c] = IF io = "send_error" THEN "closed" ELSE "loop"]
    /\ UNCHANGED <<detVars, stepVars, clientVars, now, running, srv, secVars,
                   trafficVars, client_id, password, auth_ok, auditVars>>

\* What the peer of connection c writes in the thread-level specification:
\* its own identity and token, with both traffic fields, one, or none.
StepTelemetryInputs(c) ==
    {[kind |-> "empty"], [kind |-> "garbage"]}
        \cup {[kind |-> "json",
               obj |-> JsonObject("RED", Frac(2, 5), HeldToken(c), client_id[c], K)] :
                 K \in {{"signal_state", "congestion", "token", "client_id"}}}
        \cup {[kind |-> "json",
               obj |-> JsonObject("GREEN", Frac(5, 2), HeldToken(c), client_id[c], K)] :
                 K \in KeySets \ {{"congestion", "token", "client_id"}}}

RecvDataStep(c) ==
    \E io \in {"ok", "recv_error"}, d \in StepTelemetryInputs(c) :
        RecvData(c, d, io)

\* Environment of the thread-level specification: MaxConns connections
\* served by concurrent threads, no clock step.
NextSteps ==
    \/ StartServer
    \/ ServerLoopCheck
    \/ StopServer
    \/ \E c \in Conns : Accept(c)
    \/ \E c \in Conns, a \in ProtoAuthInputs, io \in {"ok", "recv_error"} :
          RecvAuth(c, a, io)
    \/ \E c \in Conns : AuthCheckBlocked(c)
    \/ \E c \in Conns : AuthVerify(c)
    \/ \E c \in Conns : AuthTestRecord(c)
    \/ \E c \in Conns : AuthCreateRecord(c)
    \/ \E c \in Conns : AuthLoadCount(c)
    \/ \E c \in Conns : AuthStoreCount(c)
    \/ \E c \in Conns, io \in {"ok", "send_error"} : SendAuthReply(c, io)
    \/ \E c \in Conns : LoopCheck(c)
    \/ \E c \in Conns : RecvDataStep(c)
    \/ \E c \in Conns : StoreSignal(c)
    \/ \E c \in Conns : StoreCongestion(c)
    \/ \E c \in Conns : ReadSignal(c)
    \/ \E c \in Conns : ReadCongestion(c)
    \/ \E c \in Conns : ReadToken(c)
    \/ \E c \in Conns, io \in {"ok", "send_error"} : SendResponse(c, io)

SpecSteps == Init /\ [][NextSteps]_vars

\* ------------------------------------------------------------------------
\* SecureTrafficClient (src/nsp_traffic_client.py) and the byte stream
\* between a client and its handler.  A JSON text travels as two fragments;
\* recv returns any non-empty prefix of what has arrived.

\* what SecureTrafficClient.connect may be given as password
PasswordInputs == {<<"secure_password">>, <<"wrong">>, <<"pw", ":", "pw">>}

\* client line 39: f"{self.client_id}:{password}"
AuthData(i, pw) == <<i, ":">> \o pw

\* the text of what the handler sent (lines 132, 153), as the client decodes it
ReplyText(reply) ==
    IF reply.kind = "token" THEN reply.token ELSE <<"Authentication failed">>

\* json.dumps(...).encode() on the wire
Bytes(obj) == <<[part |-> 1, of |-> obj], [part |-> 2, of |-> obj]>>

\* what recv returned, as json.loads will see it: a JSON text only if it is
\* the two fragments of one message
DecodeChunk(chunk) ==
    IF chunk = << >> THEN [kind |-> "empty"]
    ELSE IF /\ Len(chunk) = 2
            /\ chunk[1].part = 1
            /\ chunk[2].part = 2
            /\ chunk[1].of = chunk[2].of
         THEN [kind |-> "json", obj |-> chunk[1].of]
         ELSE [kind |-> "garbage"]

\* client lines 27-40: connect to the accepted socket, send the auth data
ClientConnect(c, i, pw) ==
    /\ cl_pc[c] = "new"
    /\ pc[c] = "connected"
    /\ auth_msg' = [auth_msg EXCEPT ![c] = AuthData(i, pw)]
    /\ cl_pc' = [cl_pc EXCEPT ![c] = "await_auth"]
    /\ UNCHANGED <<detVars, stepVars, now, running, srv, secVars, trafficVars,
                   connVars, auditVars, stream, requests, processed, cl_read,
                   connected, cl_token, connect_ret>>

\* handle_client lines 127-132 / 152-158 on the auth data the client sent
ServeAuth(c, io) ==
    /\ cl_pc[c] = "await_auth"
    /\ HandleAuth(c, auth_msg[c], io)

\* client lines 43-56: the auth response.  With nothing sent and the socket
\* closed by the handler, recv returns b'' or raises.
ClientRecvAuth(c, io) ==
    /\ cl_pc[c] = "await_auth"
    /\ sent[c] # << >> \/ pc[c] = "closed"
    /\ IF io = "recv_error"
       THEN /\ connect_ret' = [connect_ret EXCEPT ![c] = "False"]
            /\ cl_pc' = [cl_pc EXCEPT ![c] = "failed"]
            /\ UNCHANGED <<cl_read, connected, cl_token>>
       ELSE LET resp == IF sent[c] # << >> THEN ReplyText(sent[c][1])
                        ELSE EmptyStr
            IN  /\ cl_read' = [cl_read EXCEPT ![c] = Len(sent[c])]
                /\ IF resp # <<"Authentication failed">>
                   THEN /\ cl_token' = [cl_token EXCEPT ![c] = resp]
                        /\ connected' = [connected EXCEPT ![c] = TRUE]
                        /\ connect_ret' = [connect_ret EXCEPT ![c] = "True"]
                        /\ cl_pc' = [cl_pc EXCEPT ![c] = "ready"]
                   ELSE /\ connect_ret' = [connect_ret EXCEPT ![c] = "False"]
                        /\ cl_pc' = [cl_pc EXCEPT ![c] = "failed"]
                        /\ UNCHANGED <<connected, cl_token>>
    /\ UNCHANGED <<detVars, stepVars, now, running, srv, secVars, trafficVars,
                   connVars, auditVars, auth_msg, stream, requests, processed>>

\* client lines 60-74: send one telemetry request
ClientSendTraffic(c) ==
    /\ cl_pc[c] = "ready"
    /\ connected[c]
    /\ requests[c] < MaxRequests
    /\ stream' = [stream EXCEPT ![c] = @ \o
           Bytes([timestamp |-> now, client_id |-> <<auth_msg[c][1]>>,
                  token |-> cl_token[c]])]
    /\ requests' = [requests EXCEPT ![c] = @ + 1]
    /\ cl_pc' = [cl_pc EXCEPT ![c] = "await_response"]
    /\ UNCHANGED <<detVars, stepVars, now, running, srv, secVars, trafficVars,
                   connVars, auditVars, auth_msg, processed, cl_read,
                   connected, cl_token, connect_ret>>

\* client lines 77-82: recv returns what the handler sent next, or b'' when
\* the handler has closed
ClientRecvResponse(c) ==
    /\ cl_pc[c] = "await_response"
    /\ cl_read[c] < Len(sent[c]) \/ pc[c] = "closed"
    /\ cl_read' = [cl_read EXCEPT ![c] =
           IF @ < Len(sent[c]) THEN @ + 1 ELSE @]
    /\ cl_pc' = [cl_pc EXCEPT ![c] = "ready"]
    /\ UNCHANGED <<detVars, stepVars, now, running, srv, secVars, trafficVars,
                   connVars, auditVars, auth_msg, stream, requests, processed,
                   connected, cl_token, connect_ret>>

\* client lines 112-120
ClientDisconnect(c) ==
    /\ cl_pc[c] = "ready"
    /\ connected[c]
    /\ connected' = [connected EXCEPT ![c] = FALSE]
    /\ cl_pc' = [cl_pc EXCEPT ![c] = "disconnected"]
    /\ UNCHANGED <<detVars, stepVars, now, running, srv, secVars, trafficVars,
                   connVars, auditVars, auth_msg, stream, requests, processed,
                   cl_read, cl_token, connect_ret>>

\* lines 135-150 on the byte stream: recv(4096) returns the first n
\* fragments that have arrived, or b'' once the client has disconnected
RecvStream(c, n, io) ==
    /\ IF stream[c] = << >>
       THEN n = 0 /\ (cl_pc[c] = "disconnected" \/ io = "recv_error")
       ELSE n \in 1 .. Len(stream[c])
    /\ LET data == DecodeChunk(SubSeq(stream[c], 1, n))
       IN  /\ TelemetryPass(c, data, io)
           /\ processed' = [processed EXCEPT ![c] =
                  IF io # "recv_error" /\ JsonLoads(data).ok THEN @ + 1 ELSE @]
    /\ stream' = [stream EXCEPT ![c] = SubSeq(@, n + 1, Len(@))]
    /\ UNCHANGED <<auth_msg, requests, cl_pc, cl_read, connected, cl_token,
                   connect_ret>>

\* Environment of the client specification: every connection is driven by
\* a SecureTrafficClient; sends of the handler succeed.
NextClient ==
    \/ StartServer
    \/ ServerLoopCheck
    \/ StopServer
    \/ \E c \in Conns : Accept(c)
    \/ \E c \in Conns, i \in IdSyms, pw \in PasswordInputs : ClientConnect(c, i, pw)
    \/ \E c \in Conns, io \in {"ok", "recv_error"} : ServeAuth(c, io)
    \/ \E c \in Conns, io \in {"ok", "recv_error"} : ClientRecvAuth(c, io)
    \/ \E c \in Conns : LoopCheck(c)
    \/ \E c \in Conns : ClientSendTraffic(c)
    \/ \E c \in Conns, n \in 0 .. 2 * MaxRequests, io \in {"ok", "recv_error"} :
          RecvStream(c, n, io)
    \/ \E c \in Conns : ClientRecvResponse(c)
    \/ \E c \in Conns : ClientDisconnect(c)

SpecClient == Init /\ [][NextClient]_vars

\* ------------------------------------------------------------------------
\* Progress.  A thread takes by itself only the steps that wait for nobody:
\* the loop tests of lines 108 and 134.  accept() and recv() return when a
\* peer connects, sends or closes (no timeout is set on any socket), so the
\* actions that stand for their return carry no fairness.
LiveAuthInputs == {<<"s1", ":", "secure_password">>, <<"s1", ":", "wrong">>}
LiveTelemetryInputs ==
    {[kind |-> "empty"], [kind |-> "garbage"],
     [kind |-> "json",
      obj |-> JsonObject("RED", Frac(2, 5), BogusToken, <<"s1">>,
                         {"signal_state", "congestion", "token", "client_id"})]}

NextLive ==
    \/ StartServer
    \/ StartServerFails
    \/ ServerLoopCheck
    \/ AcceptFails
    \/ StopServer
    \/ \E c \in Conns : Accept(c)
    \/ \E c \in Conns, a \in LiveAuthInputs, io \in IoOutcomes :
          HandleAuth(c, a, io)
    \/ \E c \in Conns : LoopCheck(c)
    \/ \E c \in Conns, d \in LiveTelemetryInputs, io \in IoOutcomes :
          RecvTelemetry(c, d, io)

Fairness ==
    /\ WF_vars(ServerLoopCheck)
    /\ \A c \in Conns : WF_vars(LoopCheck(c))

SpecLive == Init /\ [][NextLive]_vars /\ Fairness

\* ================================================================ claims
HasResponse(c) == \E k \in 1 .. Len(sent[c]) : sent[c][k].kind = "response"

C2_AuthGating ==
    \A c \in Conns :
        (pc[c] \in {"loop", "recv"} \/ HasResponse(c))
        => /\ auth_ok[c] = "ok"
           /\ client_id[c] \in authorized_clients
           /\ client_id[c] \in DOMAIN session_tokens
           /\ sent[c] # << >>
           /\ sent[c][1].kind = "token"
           /\ sent[c][1].token[2] = client_id[c]

\* C2 witness: one connection answered telemetry after authenticating while
\* another one failed authentication.
C2_Witness ==
    \E c, c2 \in Conns :
        /\ c # c2
        /\ auth_ok[c] = "ok"
        /\ HasResponse(c)
        /\ auth_ok[c2] = "failed"

\* The token field of a telemetry message differs from the stored token.
TokenMismatch(c, d) ==
    /\ d.kind = "json"
    /\ "token" \in DOMAIN d.obj
    /\ d.obj["token"] # Get(session_tokens, client_id[c], EmptyStr)

\* C3 (Spec). Token check on telemetry: a telemetry message whose token
\* differs from the token stored for the connection's identity closes the
\* connection and leaves the stored signal and congestion state unchanged.
C3_TokenChecked ==
    [][\A c \in Conns :
         \A d \in TelemetryInputs(c) :
            (RecvTelemetry(c, d, "ok") /\ TokenMismatch(c, d))
            => /\ pc'[c] = "closed"
               /\ signals' = signals
               /\ congestion_levels' = congestion_levels
      ]_vars

\* C4 (SpecAuth). Success resets the failure record: after a successful
\* authenticate_client call the identity has no failed-attempt record.
C4_SuccessResets ==
    [][\A c \in Conns :
         (pc[c] = "connected" /\ auth_ok'[c] = "ok")
         => client_id'[c] \notin DOMAIN failed_attempts'
      ]_vars

\* C5 (SpecAuth). Window expiry gives a fresh quota: a failed call made
\* when the window of the identity's record has elapsed starts a new record,
\* count 1 with the window starting at that call.
C5_ExpiryResets ==
    [][\A c \in Conns :
         LET cid == client_id'[c]
         IN  (/\ pc[c] = "connected"
              /\ auth_ok'[c] = "failed"
              /\ cid \in DOMAIN failed_attempts
              /\ now - failed_attempts[cid].timestamp >= 300)
             => failed_attempts'[cid] = [count |-> 1, timestamp |-> now]
      ]_vars

\* 0 <= x <= 1 for a fraction x
InUnitInterval(x) == x.num >= 0 /\ x.num <= x.den

\* C6 (Spec). Congestion range: every stored congestion level and the
\* congestion_level of every response sent lies in [0, 1].
C6_CongestionRange ==
    /\ \A i \in DOMAIN congestion_levels : InUnitInterval(congestion_levels[i])
    /\ \A c \in Conns : \A k \in 1 .. Len(sent[c]) :
          sent[c][k].kind = "response"
          => InUnitInterval(sent[c][k].congestion_level)

RECURSIVE SumBoxAreas(_)
SumBoxAreas(boxes) ==
    IF boxes = << >> THEN 0
    ELSE LET b == Head(boxes).xyxy
         IN  (b[3] - b[1]) * (b[4] - b[2]) + SumBoxAreas(Tail(boxes))

RegularBoxes(boxes) ==
    SelectSeq(boxes, LAMBDA b : b.cls \in DOMAIN vehicle_classes
                                /\ b.cls \notin EmergencyClassIds)

EmergencyBoxes(boxes) ==
    SelectSeq(boxes, LAMBDA b : b.cls \in EmergencyClassIds)

\* C7 (SpecDetect). Congestion clamp: for a frame of positive area the
\* scorer returns 1.0 when the summed area of the regular-vehicle boxes
\* exceeds the frame area, 0.0 for an empty detection list, and
\* vehicleArea / frameArea otherwise.
C7_CongestionClamp ==
    (ret.done /\ frame[1] * frame[2] > 0)
    => LET area == SumBoxAreas(RegularBoxes(results))
           frame_area == frame[1] * frame[2]
       IN  /\ area > frame_area => ret.num = ret.den
           /\ results = << >> => ret.num = 0
           /\ area <= frame_area => ret.num * frame_area = area * ret.den

\* C8 (SpecDetect). Zero-area guard: for a frame of area <= 0 the scorer
\* returns congestion 0.0, no error escapes, and the emergency result is
\* non-empty exactly when a detection is of an emergency class.
C8_ZeroAreaGuard ==
    (ret.done /\ frame[1] * frame[2] <= 0)
    => /\ ret.num = 0
       /\ ~ret.escaped
       /\ (ret.emergency # << >>) <=> (EmergencyBoxes(results) # << >>)

\* C9 (SpecAuth). Failed authentication ends the connection: whenever
\* authenticate_client returned failure (bad credential or lockout) on a
\* connection, that connection is closed and the one thing its handler sent
\* is "Authentication failed": no token, no telemetry response.
C9_FailedAuthCloses ==
    \A c \in Conns :
        auth_ok[c] \in {"failed", "blocked"}
        => /\ pc[c] = "closed"
           /\ sent[c] = <<AUTH_FAILED>>

\* C9 witness: a connection closed after a wrong password, while the
\* identity holds a token from an earlier success.
C9_Witness ==
    \E c \in Conns :
        /\ auth_ok[c] = "failed"
        /\ pc[c] = "closed"
        /\ sent[c] = <<AUTH_FAILED>>
        /\ client_id[c] \in DOMAIN session_tokens

\* C10 (Spec). Protocol errors close the connection: in the telemetry loop
\* a malformed message, an I/O error or a token mismatch closes that
\* connection, and leaves the server running and every other connection as
\* it was.
C10_ProtocolErrorCloses ==
    [][\A c \in Conns, io \in IoOutcomes :
         \A d \in TelemetryInputs(c) :
            (/\ RecvTelemetry(c, d, io)
             /\ (d.kind = "garbage" \/ io # "ok" \/ TokenMismatch(c, d)))
            => /\ pc'[c] = "closed"
               /\ running' = running
               /\ \A o \in Conns \ {c} : pc'[o] = pc[o] /\ sent'[o] = sent[o]
      ]_vars

\* an update carrying both traffic fields
FullUpdate(u) == DOMAIN u = {"signal_state", "congestion"}

\* every message received for identity i carried both traffic fields or none
OnlyWholeUpdates(i) == \A u \in updates[i] : DOMAIN u = {} \/ FullUpdate(u)

\* the (signal_state, congestion) pairs single messages for i carried
WholePairs(i) ==
    {<<u["signal_state"], u["congestion"]>> :
        u \in {v \in updates[i] : FullUpdate(v)}}

\* a handler of identity i is between its two writes
Storing(i) ==
    \E c \in Conns :
        client_id[c] = i /\ pc[c] \in {"store_signal", "store_congestion"}

\* C11 (SpecSteps). Atomic state update: when the messages received for an
\* identity each carry signal_state and congestion together, then, whenever
\* no handler of that identity is in the middle of its update, the stored
\* (signal, congestion) pair is the pair of one single message, and every
\* response sent reports the pair of one single message (or the defaults
\* ('UNKNOWN', 0.0) of an identity with nothing stored).
C11_AtomicUpdate ==
    \A i \in ClientIds :
        OnlyWholeUpdates(i)
        => /\ (~Storing(i) /\ i \in DOMAIN signals)
                 => /\ i \in DOMAIN congestion_levels
                    /\ <<signals[i], congestion_levels[i]>> \in WholePairs(i)
           /\ \A c \in Conns : \A k \in 1 .. Len(sent[c]) :
                 (client_id[c] = i /\ sent[c][k].kind = "response")
                 => <<sent[c][k].signal_state, sent[c][k].congestion_level>>
                       \in WholePairs(i) \cup {<<UNKNOWN, Frac(0, 1)>>}

\* C12 (SpecSteps). Atomic failure counting: under any interleaving of the
\* handlers, the count of an identity's failed-attempt record equals the
\* number of failed verifications completed for it (0 with no record), so
\* no failed attempt is lost.
C12_AtomicFailureCount ==
    \A i \in ClientIds :
        (IF i \in DOMAIN failed_attempts THEN failed_attempts[i].count ELSE 0)
            = failures[i]

\* telemetry responses the handler of connection c has sent
NumResponses(c) ==
    Cardinality({k \in 1 .. Len(sent[c]) : sent[c][k].kind = "response"})

\* C13 (SpecClient). Message framing: every telemetry request a client sent
\* is processed as exactly one message and answered by exactly one response:
\* each response answers a processed message, and once the handler has read
\* all that the client sent and waits in recv, the messages processed and
\* the responses sent are as many as the requests.
C13_Framing ==
    \A c \in Conns :
        /\ NumResponses(c) = processed[c]
        /\ (pc[c] = "recv" /\ stream[c] = << >>)
              => /\ processed[c] = requests[c]
                 /\ NumResponses(c) = requests[c]

\* stop_server was called while the accept loop of start_server is running
ListenerStopped == ~running /\ srv \in {"check", "accept"}

\* C14 (SpecLive). Listener shutdown: once stop_server has been called no
\* further connection is accepted, and the accept loop of start_server
\* eventually exits (no fairness is assumed on a client connecting).
C14_ListenerShutdown ==
    /\ [][ListenerStopped
            => \A c \in Conns : pc[c] = "idle" => pc'[c] = "idle"]_vars
    /\ (ListenerStopped ~> srv = "exited")

\* C15 (Spec). Token uniqueness: two successful authentications for the
\* same identity (here: on two connections) were answered with different
\* tokens, and the token stored for the identity is one of them.
C15_TokenUniqueness ==
    \A c, c2 \in Conns :
        (/\ c # c2
         /\ auth_ok[c] = "ok"
         /\ auth_ok[c2] = "ok"
         /\ client_id[c] = client_id[c2])
        => /\ sent[c][1].token # sent[c2][1].token
           /\ session_tokens[client_id[c]]
                  \in {sent[c][1].token, sent[c2][1].token}

\* C16 (SpecAuth). Hard lockout is read-only: an authenticate_client call
\* made while the identity's record has count >= 3 and now - timestamp <
\* 300 leaves failed_attempts, session_tokens and authorized_clients
\* unchanged.
C16_LockoutReadOnly ==
    [][\A c \in Conns :
         LET cid == client_id'[c]
         IN  (/\ pc[c] = "connected"
              /\ auth_ok'[c] # "none"
              /\ cid \in DOMAIN failed_attempts
              /\ failed_attempts[cid].count >= 3
              /\ now - failed_attempts[cid].timestamp < 300)
             => /\ failed_attempts' = failed_attempts
                /\ session_tokens' = session_tokens
                /\ authorized_clients' = authorized_clients
      ]_vars

\* C16 witness: a call with the correct password was turned away while
\* the identity, which holds a token from an earlier success, was locked out.
C16_Witness ==
    \E c \in Conns :
        /\ auth_ok[c] = "blocked"
        /\ password[c] = <<"secure_password">>
        /\ client_id[c] \in DOMAIN session_tokens
        /\ client_id[c] \in authorized_clients
        /\ failed_attempts[client_id[c]].count = 3

\* the entry of key k is the same in dicts d and e
SameEntry(d, e, k) ==
    /\ (k \in DOMAIN d) <=> (k \in DOMAIN e)
    /\ k \in DOMAIN d => d[k] = e[k]

\* C17 (Spec). Per-identity isolation: every step of a connection handler
\* (authentication, telemetry, error paths) whose auth message claimed
\* identity i leaves the failed-attempt record, session token, signal state
\* and congestion level of every other identity unchanged, whatever
\* client_id the telemetry payload carries.
C17_Isolation ==
    [][\A c \in Conns :
         (pc[c] \in {"connected", "loop", "recv"} /\ pc'[c] # pc[c])
         => \A j \in ClientIds \ {client_id'[c]} :
               /\ SameEntry(failed_attempts, failed_attempts', j)
               /\ SameEntry(session_tokens, session_tokens', j)
               /\ SameEntry(signals, signals', j)
               /\ SameEntry(congestion_levels, congestion_levels', j)
      ]_vars

\* C17 witness: a handler of s1 stored telemetry and answered it while s2,
\* authenticated on another connection, has a token and no traffic state.
C17_Witness ==
    \E c, c2 \in Conns :
        /\ client_id[c] = <<"s1">>
        /\ HasResponse(c)
        /\ <<"s1">> \in DOMAIN signals
        /\ <<"s1">> \in DOMAIN congestion_levels
        /\ client_id[c2] = <<"s2">>
        /\ auth_ok[c2] = "ok"
        /\ <<"s2">> \notin DOMAIN signals
        /\ <<"s2">> \notin DOMAIN congestion_levels

\* C18 (SpecLive). Handler drain on shutdown: after stop_server, a handler
\* in the telemetry loop that reaches the loop test does not start another
\* message, and every handler in the telemetry loop eventually closes.
C18_HandlerDrain ==
    /\ [][\A c \in Conns :
            (~running /\ pc[c] = "loop") => pc'[c] \in {"loop", "closed"}]_vars
    /\ \A c \in Conns :
          (~running /\ pc[c] \in {"loop", "recv"}) ~> (pc[c] = "closed")

\* C19 (SpecClient). Client and server agree on authentication: connect
\* returned True only if authenticate_client succeeded on that connection
\* and the client's session_token is the token the handler sent; in every
\* other outcome connect returned False and connected is False.
C19_ClientServerAgree ==
    \A c \in Conns :
        /\ connect_ret[c] = "True"
              => /\ auth_ok[c] = "ok"
                 /\ sent[c] # << >>
                 /\ sent[c][1].kind = "token"
                 /\ cl_token[c] = sent[c][1].token
        /\ (connect_ret[c] # "pending" /\ auth_ok[c] # "ok")
              => /\ connect_ret[c] = "False"
                 /\ ~connected[c]
                 /\ cl_token[c] = None

\* no other connection of the run claimed the identity of connection c
Alone(c) == \A c2 \in Conns \ {c} : client_id[c2] # client_id[c]

====
